---- MODULE Spec2Model ----
(***************************************************************************)
(* A model of cfn_clean/validate.py: the validation of a CloudFormation    *)
(* template (a JSON-like document) against the resource specification.     *)
(*                                                                         *)
(* Python values are records tagged with their Python type; a dict is the  *)
(* sequence of its <<key, value>> items in insertion order (keys are       *)
(* strings, as in a parsed JSON/YAML document).  A call's outcome is       *)
(* either a returned value or a raised exception.  The functions of        *)
(* validate.py are operators of the same names; the actions step through   *)
(* one call of validate(source).                                           *)
(***************************************************************************)
EXTENDS Integers, Sequences, FiniteSets, TLC

VARIABLES document, pc, idx, pidx, visited, examined, last, result

vars == <<document, pc, idx, pidx, visited, examined, last, result>>

----------------------------------------------------------------------------
(* Bounds of the model *)

\* the longest Resources mapping of the combinatorial documents
MaxResources == 2
\* the longest literal list among the property values
MaxListLen == 2

----------------------------------------------------------------------------
(* Python values *)

Str(s)    == [t |-> "str", s |-> s]
Bool(b)   == [t |-> "bool", b |-> b]
PyInt(n)  == [t |-> "int", n |-> n]
PyFloat(n) == [t |-> "float", f |-> n]       \* the float n + 0.5
List(xs)  == [t |-> "list", items |-> xs]
Tuple(xs) == [t |-> "tuple", items |-> xs]
Dict(kv)  == [t |-> "dict", kv |-> kv]
None      == [t |-> "NoneType"]
True      == Bool(TRUE)

\* isinstance(value, cls); bool is a subclass of int in Python
isinstance(value, cls) ==
    \/ value.t = cls
    \/ cls = "int" /\ value.t = "bool"

\* list and dict values are unhashable: they are no dict key
Hashable(value) == value.t \notin {"list", "dict"}

Keys(d)   == [i \in 1..Len(d.kv) |-> d.kv[i][1]]
KeySet(d) == {d.kv[i][1] : i \in 1..Len(d.kv)}
Lookup(d, k) == d.kv[CHOOSE i \in 1..Len(d.kv) : d.kv[i][1] = k][2]

(* Outcomes of a call *)
Return(v)       == [kind |-> "return", val |-> v]
Raise(exc, msg) == [kind |-> "raise", exc |-> exc, msg |-> msg]
IsRaise(o)      == o.kind = "raise"
Running         == [kind |-> "running"]

\* class ValidationError(Exception), raised with the message's template and
\* the arguments formatted into it
ValidationError(msg) == Raise("ValidationError", msg)

----------------------------------------------------------------------------
(* Python strings: the code points of the strings that the program compares
   by order (sorted) or searches (the operator "in" on a str) *)

Ord ==
    ("String" :> <<83, 116, 114, 105, 110, 103>>) @@
    ("Boolean" :> <<66, 111, 111, 108, 101, 97, 110>>) @@
    ("Json" :> <<74, 115, 111, 110>>) @@
    ("List" :> <<76, 105, 115, 116>>) @@
    ("Double" :> <<68, 111, 117, 98, 108, 101>>) @@
    ("Float" :> <<70, 108, 111, 97, 116>>) @@
    ("Integer" :> <<73, 110, 116, 101, 103, 101, 114>>) @@
    ("Benefit of the doubt" :> <<66, 101, 110, 101, 102, 105, 116, 32, 111, 102, 32, 116, 104, 101, 32, 100, 111, 117, 98, 116>>) @@
    ("Type" :> <<84, 121, 112, 101>>) @@
    ("Properties" :> <<80, 114, 111, 112, 101, 114, 116, 105, 101, 115>>) @@
    ("Resources" :> <<82, 101, 115, 111, 117, 114, 99, 101, 115>>) @@
    ("Mappings" :> <<77, 97, 112, 112, 105, 110, 103, 115>>) @@
    ("BucketName" :> <<66, 117, 99, 107, 101, 116, 78, 97, 109, 101>>) @@
    ("CorsConfiguration" :> <<67, 111, 114, 115, 67, 111, 110, 102, 105, 103, 117, 114, 97, 116, 105, 111, 110>>) @@
    ("Tags" :> <<84, 97, 103, 115>>) @@
    ("VersioningConfiguration" :> <<86, 101, 114, 115, 105, 111, 110, 105, 110, 103, 67, 111, 110, 102, 105, 103, 117, 114, 97, 116, 105, 111, 110>>) @@
    ("Status" :> <<83, 116, 97, 116, 117, 115>>) @@
    ("CorsRules" :> <<67, 111, 114, 115, 82, 117, 108, 101, 115>>) @@
    ("ImageId" :> <<73, 109, 97, 103, 101, 73, 100>>) @@
    ("EbsOptimized" :> <<69, 98, 115, 79, 112, 116, 105, 109, 105, 122, 101, 100>>) @@
    ("SecurityGroupIds" :> <<83, 101, 99, 117, 114, 105, 116, 121, 71, 114, 111, 117, 112, 73, 100, 115>>) @@
    ("DelaySeconds" :> <<68, 101, 108, 97, 121, 83, 101, 99, 111, 110, 100, 115>>) @@
    ("FifoQueue" :> <<70, 105, 102, 111, 81, 117, 101, 117, 101>>) @@
    ("QueueName" :> <<81, 117, 101, 117, 101, 78, 97, 109, 101>>) @@
    ("RedrivePolicy" :> <<82, 101, 100, 114, 105, 118, 101, 80, 111, 108, 105, 99, 121>>) @@
    ("Threshold" :> <<84, 104, 114, 101, 115, 104, 111, 108, 100>>) @@
    ("ActionsEnabled" :> <<65, 99, 116, 105, 111, 110, 115, 69, 110, 97, 98, 108, 101, 100>>) @@
    ("Period" :> <<80, 101, 114, 105, 111, 100>>) @@
    ("Weight" :> <<87, 101, 105, 103, 104, 116>>) @@
    ("AlarmName" :> <<65, 108, 97, 114, 109, 78, 97, 109, 101>>) @@
    ("CidrBlock" :> <<67, 105, 100, 114, 66, 108, 111, 99, 107>>) @@
    ("VpcId" :> <<86, 112, 99, 73, 100>>) @@
    ("Cake" :> <<67, 97, 107, 101>>) @@
    ("WeightInKilograms" :> <<87, 101, 105, 103, 104, 116, 73, 110, 75, 105, 108, 111, 103, 114, 97, 109, 115>>) @@
    ("apple" :> <<97, 112, 112, 108, 101>>) @@
    ("Zebra" :> <<90, 101, 98, 114, 97>>) @@
    ("Fn::Base64" :> <<70, 110, 58, 58, 66, 97, 115, 101, 54, 52>>) @@
    ("Fn::If" :> <<70, 110, 58, 58, 73, 102>>) @@
    ("Fn::FindInMap" :> <<70, 110, 58, 58, 70, 105, 110, 100, 73, 110, 77, 97, 112>>) @@
    ("Fn::GetAZs" :> <<70, 110, 58, 58, 71, 101, 116, 65, 90, 115>>) @@
    ("Fn::ImportValue" :> <<70, 110, 58, 58, 73, 109, 112, 111, 114, 116, 86, 97, 108, 117, 101>>) @@
    ("Fn::Join" :> <<70, 110, 58, 58, 74, 111, 105, 110>>) @@
    ("Fn::Select" :> <<70, 110, 58, 58, 83, 101, 108, 101, 99, 116>>) @@
    ("Fn::Sub" :> <<70, 110, 58, 58, 83, 117, 98>>) @@
    ("Fn::GetAtt" :> <<70, 110, 58, 58, 71, 101, 116, 65, 116, 116>>) @@
    ("Ref" :> <<82, 101, 102>>) @@
    ("Fn::Other" :> <<70, 110, 58, 58, 79, 116, 104, 101, 114>>) @@
    ("mr-bucket" :> <<109, 114, 45, 98, 117, 99, 107, 101, 116>>) @@
    ("" :> <<>>) @@
    ("Enabled" :> <<69, 110, 97, 98, 108, 101, 100>>) @@
    ("This should be a dict" :> <<84, 104, 105, 115, 32, 115, 104, 111, 117, 108, 100, 32, 98, 101, 32, 97, 32, 100, 105, 99, 116>>) @@
    ("a Type b" :> <<97, 32, 84, 121, 112, 101, 32, 98>>)

\* a < b for two str, as sorted() compares them: by code points, a proper
\* prefix first
RECURSIVE SeqLess(_, _)
SeqLess(a, b) ==
    IF Len(b) = 0 THEN FALSE
    ELSE IF Len(a) = 0 THEN TRUE
    ELSE IF a[1] # b[1] THEN a[1] < b[1]
    ELSE SeqLess(Tail(a), Tail(b))

StrLess(a, b) == SeqLess(Ord[a], Ord[b])

\* sub in s, for two str: s holds sub as a substring
Substring(sub, s) ==
    \E i \in 0..(Len(Ord[s]) - Len(Ord[sub])) :
        \A j \in 1..Len(Ord[sub]) : Ord[s][i + j] = Ord[sub][j]

\* the keys as they come, not sorted
unsorted(ks) == ks

\* sorted(keys) for a list of str: an insertion sort, stable
RECURSIVE Insert(_, _)
Insert(k, ks) ==
    IF Len(ks) = 0 THEN <<k>>
    ELSE IF StrLess(k, ks[1]) THEN <<k>> \o ks
    ELSE <<ks[1]>> \o Insert(k, Tail(ks))

RECURSIVE sorted(_)
sorted(ks) ==
    IF Len(ks) = 0 THEN <<>>
    ELSE Insert(ks[Len(ks)], sorted(SubSeq(ks, 1, Len(ks) - 1)))

\* x in container
PyIn(x, container) ==
    CASE container.t = "dict" ->
            IF ~Hashable(x) THEN Raise("TypeError", [fmt |-> "unhashable type"])
            ELSE Return(Bool(x.t = "str" /\ x.s \in KeySet(container)))
      [] container.t \in {"list", "tuple"} ->
            Return(Bool(\E i \in 1..Len(container.items) : container.items[i] = x))
      [] container.t = "str" ->
            IF x.t # "str"
            THEN Raise("TypeError", [fmt |-> "'in <string>' requires string as left operand"])
            ELSE Return(Bool(Substring(x.s, container.s)))
      [] OTHER -> Raise("TypeError", [fmt |-> "argument is not iterable"])

\* container[key]; the index of a str by an int is not modelled
PyGetItem(container, key) ==
    CASE container.t = "dict" ->
            IF ~Hashable(key) THEN Raise("TypeError", [fmt |-> "unhashable type"])
            ELSE IF key.t = "str" /\ key.s \in KeySet(container)
            THEN Return(Lookup(container, key.s))
            ELSE Raise("KeyError", [fmt |-> "key", value |-> key])
      [] container.t \in {"list", "tuple"} ->
            IF key.t \notin {"int", "bool"}
            THEN Raise("TypeError", [fmt |-> "indices must be integers"])
            ELSE LET i == IF key.t = "bool" THEN (IF key.b THEN 1 ELSE 0) ELSE key.n
                     n == Len(container.items)
                 IN  IF i >= n \/ i < 0 - n
                     THEN Raise("IndexError", [fmt |-> "index out of range"])
                     ELSE Return(container.items[IF i >= 0 THEN i + 1 ELSE n + i + 1])
      [] container.t = "str" /\ key.t \notin {"int", "bool"} ->
            Raise("TypeError", [fmt |-> "indices must be integers"])
      [] container.t \in {"NoneType", "int", "float", "bool"} ->
            Raise("TypeError", [fmt |-> "object is not subscriptable"])

----------------------------------------------------------------------------
(* The module's constants *)

MAGIC_TYPE   == Str("Benefit of the doubt")
STRING_TYPE  == Str("String")
BOOLEAN_TYPE == Str("Boolean")
JSON_TYPE    == Str("Json")
LIST_TYPE    == Str("List")
NUMBER_TYPE  == Tuple(<<Str("Double"), Str("Float"), Str("Integer")>>)

\* FN_TYPE_MAP: a type, or a callable named by its key
FN_TYPE_MAP ==
    ("Fn::Base64" :> [callable |-> FALSE, type |-> STRING_TYPE]) @@
    ("Fn::If" :> [callable |-> TRUE, type |-> None]) @@
    ("Fn::FindInMap" :> [callable |-> TRUE, type |-> None]) @@
    ("Fn::GetAZs" :> [callable |-> FALSE, type |-> Tuple(<<LIST_TYPE, STRING_TYPE>>)]) @@
    ("Fn::ImportValue" :> [callable |-> FALSE, type |-> MAGIC_TYPE]) @@
    ("Fn::Join" :> [callable |-> FALSE, type |-> STRING_TYPE]) @@
    ("Fn::Select" :> [callable |-> FALSE, type |-> MAGIC_TYPE]) @@
    ("Fn::Sub" :> [callable |-> FALSE, type |-> STRING_TYPE]) @@
    ("Ref" :> [callable |-> FALSE, type |-> MAGIC_TYPE])

(* SPEC, the table json.load reads from CloudFormationResourceSpecification.json.
   The file is data outside the source; the model takes a table of its shape:
   resource types with Properties (in the file's key order) and Attributes,
   and the property types they name.  It declares a property of every
   PrimitiveType that NUMBER_TYPE names (the shipped table has no Float
   property; Weight is one here), required keys out of sorted order, and
   attributes of two shapes. *)
Prim(p, required) == [PrimitiveType |-> p, Required |-> required]

SPEC ==
    [ResourceTypes |->
        ("AWS::S3::Bucket" :>
            [Properties |-> Dict(<<
                <<"BucketName", Prim("String", FALSE)>>,
                <<"CorsConfiguration", [Type |-> "CorsConfiguration", Required |-> FALSE]>>,
                <<"Tags", [Type |-> "List", ItemType |-> "Tag", Required |-> FALSE]>>,
                <<"VersioningConfiguration",
                  [Type |-> "VersioningConfiguration", Required |-> FALSE]>> >>),
             Attributes |-> ("DomainName" :> [PrimitiveType |-> "String"])]) @@
        ("AWS::EC2::Instance" :>
            [Properties |-> Dict(<<
                <<"ImageId", Prim("String", TRUE)>>,
                <<"EbsOptimized", Prim("Boolean", FALSE)>>,
                <<"SecurityGroupIds",
                  [Type |-> "List", PrimitiveItemType |-> "String", Required |-> FALSE]>> >>)]) @@
        ("AWS::SQS::Queue" :>
            [Properties |-> Dict(<<
                <<"DelaySeconds", Prim("Integer", FALSE)>>,
                <<"FifoQueue", Prim("Boolean", FALSE)>>,
                <<"QueueName", Prim("String", FALSE)>>,
                <<"RedrivePolicy", Prim("Json", FALSE)>> >>),
             Attributes |-> ("Arn" :> [PrimitiveType |-> "String"]) @@
                            ("QueueName" :> [PrimitiveType |-> "String"])]) @@
        ("AWS::CloudWatch::Alarm" :>
            [Properties |-> Dict(<<
                <<"Threshold", Prim("Double", TRUE)>>,
                <<"ActionsEnabled", Prim("Boolean", FALSE)>>,
                <<"Period", Prim("Integer", TRUE)>>,
                <<"Weight", Prim("Float", FALSE)>>,
                <<"AlarmName", Prim("String", FALSE)>> >>)]) @@
        ("AWS::EC2::Subnet" :>
            [Properties |-> Dict(<<
                <<"CidrBlock", Prim("String", FALSE)>>,
                <<"VpcId", Prim("String", FALSE)>> >>),
             Attributes |-> ("AvailabilityZone" :> [PrimitiveType |-> "String"]) @@
                            ("Ipv6CidrBlocks" :>
                                [Type |-> "List", PrimitiveItemType |-> "String"])]),
     PropertyTypes |->
        ("AWS::S3::Bucket.VersioningConfiguration" :>
            [Properties |-> Dict(<< <<"Status", Prim("String", TRUE)>> >>)]) @@
        ("AWS::S3::Bucket.CorsConfiguration" :>
            [Properties |-> Dict(<<
                <<"CorsRules",
                  [Type |-> "List", ItemType |-> "CorsRule", Required |-> TRUE]>> >>)])]

\* d.get(field, ""), for a property's or an attribute's descriptor
Get(d, field) == IF field \in DOMAIN d THEN d[field] ELSE ""

\* the key of a descriptor without the two item fields
Format2(d) == Get(d, "Type") \o "/" \o Get(d, "PrimitiveType")

\* "{}/{}/{}/{}".format(Type, PrimitiveType, ItemType, PrimitiveItemType)
Format4(d) ==
    Get(d, "Type") \o "/" \o Get(d, "PrimitiveType") \o "/" \o
    Get(d, "ItemType") \o "/" \o Get(d, "PrimitiveItemType")

----------------------------------------------------------------------------
(* get_value_type and the two callables of FN_TYPE_MAP *)

RECURSIVE get_value_type(_, _)

\* "Fn::If": lambda value, source: get_value_type(value[1])
\* (source is not handed on: the inner call takes the default, None)
FnIf(value, source) ==
    LET branch == PyGetItem(value, PyInt(1))
    IN  IF IsRaise(branch) THEN branch ELSE get_value_type(branch.val, None)

\* "Fn::FindInMap": lambda value, source:
\*     get_value_type(source["Mappings"][value[0]][value[1]][value[2]])
FnFindInMap(value, source) ==
    LET mappings == PyGetItem(source, Str("Mappings")) IN
    IF IsRaise(mappings) THEN mappings ELSE
    LET k0 == PyGetItem(value, PyInt(0)) IN
    IF IsRaise(k0) THEN k0 ELSE
    LET m0 == PyGetItem(mappings.val, k0.val) IN
    IF IsRaise(m0) THEN m0 ELSE
    LET k1 == PyGetItem(value, PyInt(1)) IN
    IF IsRaise(k1) THEN k1 ELSE
    LET m1 == PyGetItem(m0.val, k1.val) IN
    IF IsRaise(m1) THEN m1 ELSE
    LET k2 == PyGetItem(value, PyInt(2)) IN
    IF IsRaise(k2) THEN k2 ELSE
    LET m2 == PyGetItem(m1.val, k2.val) IN
    IF IsRaise(m2) THEN m2 ELSE get_value_type(m2.val, None)

\* ScalarType with the test for the numbers before the test for bool
ScalarTypeNumberFirst(value) ==
    IF isinstance(value, "str") THEN Return(STRING_TYPE)
    ELSE IF isinstance(value, "int") \/ isinstance(value, "float")
    THEN Return(NUMBER_TYPE)
    ELSE IF isinstance(value, "bool") THEN Return(BOOLEAN_TYPE)
    ELSE ValidationError([fmt |-> "WTF:", value |-> value])

\* get_value_type on a value that is neither a dict nor a list: the tests
\* for str, bool and the numbers, in the order the code makes them
ScalarType(value) ==
    IF isinstance(value, "str") THEN Return(STRING_TYPE)
    ELSE IF isinstance(value, "bool") THEN Return(BOOLEAN_TYPE)
    ELSE IF isinstance(value, "int") \/ isinstance(value, "float")
    THEN Return(NUMBER_TYPE)
    ELSE ValidationError([fmt |-> "WTF:", value |-> value])

get_value_type(value, source) ==
    IF isinstance(value, "dict") THEN
        IF Len(value.kv) > 1 THEN Return(JSON_TYPE)
        ELSE IF Len(value.kv) = 0
        THEN Raise("IndexError", [fmt |-> "index out of range"])
        ELSE LET fn_name == value.kv[1][1]
                 arg     == value.kv[1][2]
             IN  IF fn_name \notin DOMAIN FN_TYPE_MAP THEN Return(JSON_TYPE)
                 ELSE IF ~FN_TYPE_MAP[fn_name].callable
                 THEN Return(FN_TYPE_MAP[fn_name].type)
                 ELSE IF fn_name = "Fn::If" THEN FnIf(arg, source)
                 ELSE FnFindInMap(arg, source)
    ELSE IF isinstance(value, "list") THEN
        IF Len(value.items) = 0
        THEN Raise("IndexError", [fmt |-> "index out of range"])
        ELSE LET first == get_value_type(value.items[1], None)
             IN  IF IsRaise(first) THEN first
                 ELSE Return(Tuple(<<LIST_TYPE, first.val>>))
    ELSE ScalarType(value)

\* get_att_spec(value, source): the attribute's descriptor, or None
get_att_spec(value, source) ==
    LET resources == PyGetItem(source, Str("Resources")) IN
    IF IsRaise(resources) THEN resources ELSE
    LET name == PyGetItem(value, PyInt(0)) IN
    IF IsRaise(name) THEN name ELSE
    LET resource == PyGetItem(resources.val, name.val) IN
    IF IsRaise(resource) THEN resource ELSE
    LET resource_type == PyGetItem(resource.val, Str("Type")) IN
    IF IsRaise(resource_type) THEN resource_type ELSE
    IF ~Hashable(resource_type.val)
    THEN Raise("TypeError", [fmt |-> "unhashable type"]) ELSE
    IF ~(resource_type.val.t = "str" /\ resource_type.val.s \in DOMAIN SPEC.ResourceTypes)
    THEN Raise("KeyError", [fmt |-> "key", value |-> resource_type.val]) ELSE
    LET rt         == SPEC.ResourceTypes[resource_type.val.s]
        attributes == IF "Attributes" \in DOMAIN rt THEN rt.Attributes ELSE <<>>
        att        == PyGetItem(value, PyInt(1))
    IN  IF IsRaise(att) THEN att
        ELSE IF ~Hashable(att.val)
        THEN Raise("TypeError", [fmt |-> "unhashable type"])
        ELSE IF att.val.t = "str" /\ att.val.s \in DOMAIN attributes
        THEN Return(attributes[att.val.s])
        ELSE Return(None)

----------------------------------------------------------------------------
(* validate_property, validate_properties, validate_resource *)

\* the error of fail(expected_type), local to validate_property
fail(resource_name, property_name, value, expected_type) ==
    ValidationError([fmt |-> "Resource {} has invalid data in property {}: {} ({} expected)",
                     resource_name |-> resource_name, property_name |-> property_name,
                     value |-> value, expected |-> expected_type])

\* required = [key for key, value in spec.items() if value["Required"]]
required(spec) == SelectSeq(Keys(spec), LAMBDA key : Lookup(spec, key).Required)

\* PropertiesCheck with the unexpected keys looked for before the missing ones
PropertiesCheckUnexpectedFirst(resource_name, properties, spec) ==
    LET req == required(spec)
        unexpected ==
            IF properties.t = "dict"
            THEN SelectSeq(Keys(properties), LAMBDA key : key \notin KeySet(spec))
            ELSE <<>>
    IN
    IF properties.t \in {"NoneType", "int", "float", "bool"}
    THEN Raise("TypeError", [fmt |-> "object is not iterable"])
    ELSE IF unexpected # <<>>
    THEN ValidationError([fmt |-> "Resource {} has unexpected properties: {}",
                          resource_name |-> resource_name, keys |-> sorted(unexpected)])
    ELSE
    LET missing == SelectSeq(req, LAMBDA key : ~PyIn(Str(key), properties).val.b) IN
    IF missing # <<>>
    THEN ValidationError([fmt |-> "Resource {} has missing required properties: {}",
                          resource_name |-> resource_name, keys |-> missing])
    ELSE Return(None)

\* the two checks validate_properties makes before it looks at any value.
\* A property bag that is a str or a list is not modelled.
PropertiesCheck(resource_name, properties, spec) ==
    LET req == required(spec) IN
    IF req # <<>> /\ IsRaise(PyIn(Str(req[1]), properties))
    THEN PyIn(Str(req[1]), properties)
    ELSE
    LET missing == SelectSeq(req, LAMBDA key : ~PyIn(Str(key), properties).val.b) IN
    IF missing # <<>>
    THEN ValidationError([fmt |-> "Resource {} has missing required properties: {}",
                          resource_name |-> resource_name, keys |-> missing])
    ELSE
    CASE properties.t = "dict" ->
            LET unexpected ==
                    SelectSeq(Keys(properties), LAMBDA key : key \notin KeySet(spec))
            IN  IF unexpected # <<>>
                THEN ValidationError([fmt |-> "Resource {} has unexpected properties: {}",
                                      resource_name |-> resource_name,
                                      keys |-> sorted(unexpected)])
                ELSE Return(None)
      [] properties.t \in {"NoneType", "int", "float", "bool"} ->
            Raise("TypeError", [fmt |-> "object is not iterable"])

\* Mismatch without the membership test
MismatchNotEqual(primitive_type, value_type) == Str(primitive_type) # value_type

\* primitive_type != value_type and primitive_type not in value_type
Mismatch(primitive_type, value_type) ==
    /\ Str(primitive_type) # value_type
    /\ ~PyIn(Str(primitive_type), value_type).val.b

RECURSIVE validate_properties(_, _, _, _)

validate_property(resource_name, property_name, value, spec, source) ==
    IF isinstance(value, "dict") /\ "Fn::GetAtt" \in KeySet(value) THEN
        LET att_spec == get_att_spec(Lookup(value, "Fn::GetAtt"), source) IN
        IF IsRaise(att_spec) THEN att_spec
        ELSE IF att_spec.val = None
        THEN Raise("AttributeError", [fmt |-> "'NoneType' object has no attribute 'get'"])
        ELSE IF Format4(att_spec.val) # Format4(spec)
        THEN ValidationError(
                [fmt |-> "Resource {} has invalid data in property {}. (GetAtt returns wrong data type)",
                 resource_name |-> resource_name, property_name |-> property_name])
        ELSE Return(None)
    ELSE
        LET value_type == get_value_type(value, source) IN
        IF IsRaise(value_type) THEN value_type
        ELSE IF value_type.val = MAGIC_TYPE THEN Return(None)
        ELSE IF "PrimitiveType" \in DOMAIN spec THEN
            LET primitive_type == spec.PrimitiveType IN
            IF Mismatch(primitive_type, value_type.val)
            THEN fail(resource_name, property_name, value, primitive_type)
            ELSE Return(None)
        ELSE IF "Type" \in DOMAIN spec THEN
            IF spec.Type = "List" THEN Return(None)
            ELSE IF spec.Type = "Map" THEN Return(None)
            ELSE
                LET custom_type ==
                        Lookup(Lookup(Lookup(source, "Resources"), resource_name), "Type").s
                            \o "." \o spec.Type
                IN  IF custom_type \notin DOMAIN SPEC.PropertyTypes
                    THEN Raise("KeyError", [fmt |-> "key", value |-> Str(custom_type)])
                    ELSE validate_properties(resource_name, value,
                            SPEC.PropertyTypes[custom_type].Properties, source)
        ELSE Return(None)

\* for property_name, value in properties.items(): validate_property(...),
\* from the i-th item on
RECURSIVE ValidateItems(_, _, _, _, _)
ValidateItems(resource_name, properties, spec, source, i) ==
    IF i > Len(properties.kv) THEN Return(None)
    ELSE LET r == validate_property(resource_name, properties.kv[i][1],
                      properties.kv[i][2], Lookup(spec, properties.kv[i][1]), source)
         IN  IF IsRaise(r) THEN r
             ELSE ValidateItems(resource_name, properties, spec, source, i + 1)

validate_properties(resource_name, properties, spec, source) ==
    LET check == PropertiesCheck(resource_name, properties, spec)
    IN  IF IsRaise(check) THEN check
        ELSE ValidateItems(resource_name, properties, spec, source, 1)

\* source["Resources"][resource_name]
Resource(source, resource_name) == Lookup(Lookup(source, "Resources"), resource_name)

\* ResourceCheck with one test, resource.get("Type") not in SPEC["ResourceTypes"],
\* in the place of the two: a record without Type is reported as of invalid type
ResourceCheckGet(resource_name, source) ==
    LET resource == Resource(source, resource_name)
        type     == IF resource.t = "dict" /\ "Type" \in KeySet(resource)
                    THEN Lookup(resource, "Type") ELSE None
    IN  IF resource.t # "dict"
        THEN Raise("AttributeError", [fmt |-> "object has no attribute 'get'"])
        ELSE IF ~Hashable(type)
        THEN Raise("TypeError", [fmt |-> "unhashable type"])
        ELSE IF ~(type.t = "str" /\ type.s \in DOMAIN SPEC.ResourceTypes)
        THEN ValidationError([fmt |-> "Resource {} has invalid type: {}",
                              resource_name |-> resource_name, value |-> type])
        ELSE Return(None)

\* the two checks validate_resource makes on the resource record
ResourceCheck(resource_name, source) ==
    LET resource == Resource(source, resource_name)
        has_type == PyIn(Str("Type"), resource)
    IN  IF IsRaise(has_type) THEN has_type
        ELSE IF ~has_type.val.b
        THEN ValidationError([fmt |-> "Badly formatted resource: {}",
                              resource_name |-> resource_name])
        ELSE LET type == PyGetItem(resource, Str("Type")) IN
             IF IsRaise(type) THEN type
             ELSE IF ~Hashable(type.val)
             THEN Raise("TypeError", [fmt |-> "unhashable type"])
             ELSE IF ~(type.val.t = "str" /\ type.val.s \in DOMAIN SPEC.ResourceTypes)
             THEN ValidationError([fmt |-> "Resource {} has invalid type: {}",
                                   resource_name |-> resource_name, value |-> type.val])
             ELSE Return(None)

\* resource.get("Properties", {})
PropertiesOf(resource) ==
    IF "Properties" \in KeySet(resource) THEN Lookup(resource, "Properties")
    ELSE Dict(<<>>)

\* SPEC["ResourceTypes"][resource["Type"]]["Properties"]
SchemaOf(resource) == SPEC.ResourceTypes[Lookup(resource, "Type").s].Properties

validate_resource(resource_name, source) ==
    LET check == ResourceCheck(resource_name, source)
    IN  IF IsRaise(check) THEN check
        ELSE validate_properties(resource_name,
                PropertiesOf(Resource(source, resource_name)),
                SchemaOf(Resource(source, resource_name)), source)

----------------------------------------------------------------------------
(* The documents validate is called with *)

Fn(name, arg) == Dict(<< <<name, arg>> >>)

Scalars ==
    {Str("mr-bucket"), Str(""), PyInt(10), PyInt(0), PyFloat(1), True, Bool(FALSE), None}

ListElems == {Str("mr-bucket"), PyInt(10)}

\* the literal lists of up to MaxListLen elements, the empty list among them
Lists == {List(xs) : xs \in UNION {[1..n -> ListElems] : n \in 0..MaxListLen}}

PlainDicts ==
    {Dict(<<>>),
     Dict(<< <<"Status", Str("Enabled")>> >>),
     Dict(<< <<"Status", PyInt(10)>> >>),
     Dict(<< <<"Status", Str("Enabled")>>, <<"Cake", Str("lie")>> >>),
     Dict(<< <<"CorsRules", List(<<>>)>> >>),
     Fn("Fn::Other", Str("x"))}

FindInMaps ==
    {Fn("Fn::FindInMap", List(<<Str("RegionMap"), Str("us-east-1"), Str(k)>>)) :
        k \in {"AMI", "Count", "Zones", "Nope"}}
    \cup {Fn("Fn::FindInMap", List(<<Str("RegionMap"), Str("us-east-1")>>))}

SimpleFns ==
    {Fn("Fn::Base64", Str("text")),
     Fn("Fn::GetAZs", Str("")),
     Fn("Fn::ImportValue", Str("exported")),
     Fn("Fn::Join", List(<<Str(","), List(<<Str("a"), Str("b")>>)>>)),
     Fn("Fn::Select", List(<<PyInt(0), List(<<Str("a")>>)>>)),
     Fn("Fn::Sub", Str("${AWS::Region}-x")),
     Fn("Ref", Str("Param"))}

\* the true branches of the Fn::If values
IfBranches ==
    {Str("mr-bucket"), PyInt(10), True, None, List(<<>>), List(<<Str("mr-bucket")>>),
     Dict(<< <<"Status", Str("Enabled")>>, <<"Cake", Str("lie")>> >>),
     Fn("Ref", Str("Param")), Fn("Fn::Join", List(<<Str(","), List(<<Str("a")>>)>>))}
    \cup FindInMaps

Ifs ==
    {Fn("Fn::If", List(<<c, t, f>>)) :
        c \in {Str("IsProd"), Str("IsTest")}, t \in IfBranches, f \in {Str("x"), PyInt(10)}}
    \cup {Fn("Fn::If", List(<<Str("IsProd")>>)),
          Fn("Fn::If", List(<<Str("IsProd"), Fn("Fn::If", List(<<Str("IsTest"), PyInt(10), Str("x")>>)), Str("x")>>))}

Values == Scalars \cup Lists \cup PlainDicts \cup SimpleFns \cup FindInMaps \cup Ifs

GetAtts ==
    {Fn("Fn::GetAtt", List(<<Str(r), Str(a)>>)) :
        r \in {"First", "Missing"},
        a \in {"DomainName", "Ipv6CidrBlocks", "AvailabilityZone", "Arn", "Nope"}}
    \cup {Fn("Fn::GetAtt", List(<<Str("First")>>))}

MappingsDict ==
    Dict(<< <<"RegionMap", Dict(<< <<"us-east-1", Dict(<<
        <<"AMI", Str("ami-1")>>, <<"Count", PyInt(2)>>,
        <<"Zones", List(<<Str("a")>>)>> >>)>> >>)>> >>)

\* values that satisfy the required properties of the table's resource types
Defaults ==
    ("ImageId" :> Str("GladOS-0.1")) @@ ("Threshold" :> PyInt(10)) @@ ("Period" :> PyInt(60))

TypeNames == DOMAIN SPEC.ResourceTypes

\* the property bag of a resource of the type that gives the property key the
\* value v, after the type's other required properties
Bag(type, key, v) ==
    LET schema == SPEC.ResourceTypes[type].Properties
        others == SelectSeq(required(schema), LAMBDA k : k # key)
    IN  Dict([i \in 1..Len(others) |-> <<others[i], Defaults[others[i]]>>]
             \o << <<key, v>> >>)

ResourceOf(type, bag) == Dict(<< <<"Type", Str(type)>>, <<"Properties", bag>> >>)

\* one resource per resource type, property of the type and value
TypedResources(vals) ==
    {ResourceOf(tk[1], Bag(tk[1], tk[2], v)) :
        tk \in {<<type, key>> \in TypeNames \X DOMAIN Ord :
                    key \in KeySet(SPEC.ResourceTypes[type].Properties)},
        v \in vals}

\* bags with required keys missing, keys the schema does not know and an
\* ill-typed value, in every combination
Unexpected ==
    {<<>>, <<"Cake">>, <<"WeightInKilograms", "Cake">>, <<"apple", "Zebra", "Cake">>}

Present(keys, vals) == [i \in 1..Len(keys) |-> <<keys[i], vals[keys[i]]>>]

Lie == [k \in DOMAIN Ord |-> Str("lie")]

MixedResources ==
    {ResourceOf("AWS::CloudWatch::Alarm",
                Dict(Present(req, Defaults) \o ill \o Present(unexp, Lie))) :
        req \in {<<>>, <<"Threshold">>, <<"Period">>, <<"Period", "Threshold">>},
        ill \in {<<>>, << <<"AlarmName", PyInt(10)>> >>, << <<"AlarmName", List(<<>>)>> >>},
        unexp \in Unexpected}
    \cup
    {ResourceOf("AWS::EC2::Instance",
                Dict(Present(req, Defaults) \o ill \o Present(unexp, Lie))) :
        req \in {<<>>, <<"ImageId">>},
        ill \in {<<>>, << <<"EbsOptimized", PyInt(10)>> >>},
        unexp \in Unexpected}

\* resource records that are no well-formed resource
Malformed ==
    {Dict(<<>>),
     Dict(<< <<"Properties", Dict(<< <<"BucketName", PyInt(10)>> >>)>> >>),
     Dict(<< <<"Properties", Dict(<< <<"BucketName", List(<<>>)>> >>)>> >>),
     Dict(<< <<"Type", Str("AWS::Cutlery::Spoon")>> >>),
     Dict(<< <<"Type", Str("AWS::Cutlery::Spoon")>>,
             <<"Properties", Dict(<< <<"BucketName", List(<<>>)>> >>)>> >>),
     Dict(<< <<"Type", PyInt(10)>> >>),
     Dict(<< <<"Type", List(<<>>)>> >>),
     Dict(<< <<"Type", Str("AWS::S3::Bucket")>>, <<"Properties", PyInt(10)>> >>),
     Dict(<< <<"Type", Str("AWS::EC2::Instance")>>, <<"Properties", None>> >>),
     Str("mr-bucket"), Str("a Type b"), List(<<Str("Type")>>), PyInt(10), None}

\* the resources of the documents with several resources
FewResources ==
    {Dict(<< <<"Type", Str("AWS::S3::Bucket")>> >>),
     ResourceOf("AWS::S3::Bucket", Dict(<< <<"BucketName", Str("mr-bucket")>> >>)),
     ResourceOf("AWS::S3::Bucket", Dict(<< <<"BucketName", PyInt(10)>> >>)),
     ResourceOf("AWS::S3::Bucket", Dict(<< <<"BucketName", List(<<>>)>> >>)),
     Dict(<< <<"Type", Str("AWS::EC2::Instance")>> >>),
     Dict(<< <<"Type", Str("AWS::Cutlery::Spoon")>> >>),
     Dict(<<>>)}

\* the targets of the Fn::GetAtt values
Targets ==
    {Dict(<< <<"Type", Str("AWS::S3::Bucket")>> >>),
     Dict(<< <<"Type", Str("AWS::EC2::Subnet")>> >>),
     Dict(<< <<"Type", Str("AWS::SQS::Queue")>> >>),
     Dict(<< <<"Type", Str("AWS::EC2::Instance")>>,
             <<"Properties", Dict(<< <<"ImageId", Str("GladOS-0.1")>> >>)>> >>),
     Dict(<< <<"Type", Str("AWS::Cutlery::Spoon")>> >>),
     Dict(<<>>)}

ResourceNames == <<"First", "Test", "Third", "Fourth">>

\* a Resources mapping: the resources named in the order of ResourceNames
Named(rs) == Dict([i \in 1..Len(rs) |-> <<ResourceNames[i], rs[i]>>])

Template(resources) == Dict(<< <<"Resources", resources>> >>)

WithMappings(resources) ==
    Dict(<< <<"Resources", resources>>, <<"Mappings", MappingsDict>> >>)

Documents ==
    \* no mapping, no Resources, Resources that is no mapping
    {Str("This should be a dict"), PyInt(10), List(<<>>), None, True,
     Dict(<<>>), Dict(<< <<"Mappings", MappingsDict>> >>),
     Template(List(<<>>)), Template(Str("mr-bucket")), Template(None)}
    \* up to MaxResources resources
    \cup {Template(Named(rs)) :
            rs \in UNION {[1..n -> FewResources] : n \in 0..MaxResources}}
    \* one resource
    \cup {Template(Dict(<< <<"Test", r>> >>)) :
            r \in TypedResources(Values) \cup MixedResources \cup Malformed}
    \cup {WithMappings(Dict(<< <<"Test", r>> >>)) :
            r \in TypedResources(FindInMaps \cup Ifs \cup Lists)}
    \* a resource with a Fn::GetAtt, after and before its target
    \cup {Template(Dict(<< <<"First", target>>, <<"Test", r>> >>)) :
            target \in Targets, r \in TypedResources(GetAtts)}
    \cup {Template(Dict(<< <<"Test", r>>, <<"First", target>> >>)) :
            target \in Targets, r \in TypedResources(GetAtts)}

----------------------------------------------------------------------------
(* One call validate(document), step by step *)

Init ==
    /\ document \in Documents
    /\ pc = "validate"
    /\ idx = 0
    /\ pidx = 0
    /\ visited = <<>>
    /\ examined = <<>>
    /\ last = [called |-> FALSE]
    /\ result = Running

\* the resource the loop of validate is at, and what validate_resource reads
ResourceName == Keys(Lookup(document, "Resources"))[idx]
Current      == Resource(document, ResourceName)

\* validate: the two checks on the document
Validate ==
    /\ pc = "validate"
    /\ IF ~isinstance(document, "dict")
       THEN /\ result' = ValidationError([fmt |-> "Badly formatted input"])
            /\ pc' = "done"
            /\ idx' = idx
       ELSE IF "Resources" \notin KeySet(document)
       THEN /\ result' = ValidationError([fmt |-> "Missing Resources property"])
            /\ pc' = "done"
            /\ idx' = idx
       ELSE /\ result' = result
            /\ pc' = "loop"
            /\ idx' = 1
    /\ UNCHANGED <<document, pidx, visited, examined, last>>

\* validate: for resource_name in source["Resources"].keys(), and return True
ValidateLoop ==
    /\ pc = "loop"
    /\ LET resources == Lookup(document, "Resources") IN
       IF resources.t # "dict"
       THEN /\ result' = Raise("AttributeError", [fmt |-> "object has no attribute 'keys'"])
            /\ pc' = "done"
            /\ visited' = visited
       ELSE IF idx <= Len(resources.kv)
       THEN /\ visited' = Append(visited, resources.kv[idx][1])
            /\ pc' = "validate_resource"
            /\ result' = result
       ELSE /\ result' = Return(True)
            /\ pc' = "done"
            /\ visited' = visited
    /\ UNCHANGED <<document, idx, pidx, examined, last>>

\* ValidateResource that goes on to the next resource when the checks fail
ValidateResourceSkipping ==
    /\ pc = "validate_resource"
    /\ LET check == ResourceCheck(ResourceName, document) IN
       IF IsRaise(check)
       THEN /\ pc' = "loop"
            /\ idx' = idx + 1
       ELSE /\ pc' = "validate_properties"
            /\ idx' = idx
    /\ UNCHANGED <<document, pidx, visited, examined, last, result>>

\* validate_resource: the checks on the resource record
ValidateResource ==
    /\ pc = "validate_resource"
    /\ LET check == ResourceCheck(ResourceName, document) IN
       IF IsRaise(check)
       THEN /\ result' = check
            /\ pc' = "done"
       ELSE /\ result' = result
            /\ pc' = "validate_properties"
    /\ idx' = idx
    /\ UNCHANGED <<document, pidx, visited, examined, last>>

\* validate_properties of the resource: the checks on the keys of the bag
ValidateProperties ==
    /\ pc = "validate_properties"
    /\ LET check == PropertiesCheck(ResourceName, PropertiesOf(Current), SchemaOf(Current)) IN
       IF IsRaise(check)
       THEN /\ result' = check
            /\ pc' = "done"
            /\ pidx' = pidx
       ELSE /\ result' = result
            /\ pc' = "validate_property"
            /\ pidx' = 1
    /\ UNCHANGED <<document, idx, visited, examined, last>>

\* validate_properties of the resource: one turn of the loop over the items
\* of the bag, and the return to the loop of validate after the last
ValidateProperty ==
    /\ pc = "validate_property"
    /\ LET properties == PropertiesOf(Current) IN
       IF pidx > Len(properties.kv)
       THEN /\ pc' = "loop"
            /\ idx' = idx + 1
            /\ pidx' = 0
            /\ UNCHANGED <<examined, last, result>>
       ELSE LET property_name == properties.kv[pidx][1]
                value         == properties.kv[pidx][2]
                spec          == Lookup(SchemaOf(Current), property_name)
                out           == validate_property(ResourceName, property_name, value,
                                                   spec, document)
            IN  /\ examined' = Append(examined, <<ResourceName, property_name>>)
                /\ last' = [called |-> TRUE, resource_name |-> ResourceName,
                            property_name |-> property_name, value |-> value,
                            spec |-> spec, out |-> out]
                /\ IF IsRaise(out)
                   THEN /\ result' = out
                        /\ pc' = "done"
                        /\ UNCHANGED <<idx, pidx>>
                   ELSE /\ pidx' = pidx + 1
                        /\ UNCHANGED <<result, pc, idx>>
    /\ UNCHANGED <<document, visited>>

Next ==
    \/ Validate
    \/ ValidateLoop
    \/ ValidateResource
    \/ ValidateProperties
    \/ ValidateProperty

Spec == Init /\ [][Next]_vars


----------------------------------------------------------------------------
(* The properties of validate *)

Done == pc = "done"

IsValidationError(o) == IsRaise(o) /\ o.exc = "ValidationError"

\* the document has a Resources mapping: validate reaches its loop
HasResources ==
    /\ isinstance(document, "dict")
    /\ "Resources" \in KeySet(document)
    /\ Lookup(document, "Resources").t = "dict"

Names == Keys(Lookup(document, "Resources"))

\* the loop of validate is at a resource
AtResource == HasResources /\ idx \in 1..Len(Names)

\* no property of the resource was handed to validate_property
NotExamined(resource_name) ==
    \A i \in 1..Len(examined) : examined[i][1] # resource_name

\* a resource record: a mapping with a string Type, if any, and a mapping
\* Properties, if any
IsRecord(r) ==
    /\ r.t = "dict"
    /\ "Type" \in KeySet(r) => Lookup(r, "Type").t = "str"
    /\ "Properties" \in KeySet(r) => Lookup(r, "Properties").t = "dict"

\* the inputs C1 speaks of: a value that is no mapping, or a mapping whose
\* Resources, if any, is a mapping of resource records
Covered(doc) ==
    \/ ~isinstance(doc, "dict")
    \/ "Resources" \notin KeySet(doc)
    \/ /\ Lookup(doc, "Resources").t = "dict"
       /\ \A i \in 1..Len(Lookup(doc, "Resources").kv) :
            IsRecord(Lookup(doc, "Resources").kv[i][2])

\* C1: a call of validate on such an input ends in one of two ways: it
\* returns True, or it raises ValidationError; no other exception escapes.
C1_TrueOrValidationError ==
    (Done /\ Covered(document)) =>
        (result = Return(True) \/ IsValidationError(result))

\* C2: the structural checks come in a fixed order and the first that fails
\* decides the error: a document that is no mapping raises "Badly formatted
\* input"; a mapping without Resources raises "Missing Resources property";
\* a resource record without Type raises "Badly formatted resource" with its
\* name, and one whose Type is no key of ResourceTypes raises "invalid type"
\* with its name and the type; both of them before any property of the
\* resource is examined.
C2_StructuralPrecedence ==
    /\ (pc # "validate" /\ ~isinstance(document, "dict")) =>
            (Done /\ result = ValidationError([fmt |-> "Badly formatted input"]))
    /\ (pc # "validate" /\ isinstance(document, "dict")
            /\ "Resources" \notin KeySet(document)) =>
            (Done /\ result = ValidationError([fmt |-> "Missing Resources property"]))
    /\ (AtResource /\ pc \notin {"loop", "validate_resource"} /\ Current.t = "dict") =>
        /\ "Type" \notin KeySet(Current) =>
            /\ Done
            /\ result = ValidationError([fmt |-> "Badly formatted resource: {}",
                                         resource_name |-> ResourceName])
            /\ NotExamined(ResourceName)
        /\ ("Type" \in KeySet(Current) /\ Lookup(Current, "Type").t = "str"
                /\ Lookup(Current, "Type").s \notin TypeNames) =>
            /\ Done
            /\ result = ValidationError([fmt |-> "Resource {} has invalid type: {}",
                                         resource_name |-> ResourceName,
                                         value |-> Lookup(Current, "Type")])
            /\ NotExamined(ResourceName)

\* a resource without Type whose properties, had they been examined, would
\* have raised another error
C2_Witness ==
    /\ Done
    /\ AtResource
    /\ Current.t = "dict"
    /\ "Type" \notin KeySet(Current)
    /\ "Properties" \in KeySet(Current)
    /\ IsValidationError(result)
    /\ result.msg.fmt = "Badly formatted resource: {}"

\* C3: validate visits the resources in the order of Resources, one at a
\* time, and fails fast: it returns True only if validate_resource succeeds
\* for every resource name; when a resource fails, the error raised is that
\* of the first failing resource and no later resource is validated.
C3_FailFastInOrder ==
    HasResources =>
        /\ visited = SubSeq(Names, 1, Len(visited))
        /\ (Done /\ result = Return(True)) =>
            /\ visited = Names
            /\ \A i \in 1..Len(Names) : validate_resource(Names[i], document) = Return(None)
        /\ (Done /\ IsRaise(result)) =>
            /\ idx \in 1..Len(Names)
            /\ Len(visited) = idx
            /\ \A i \in 1..(idx - 1) : validate_resource(Names[i], document) = Return(None)
            /\ result = validate_resource(Names[idx], document)

\* the first of two failing resources decides, the second is not visited
C3_Witness ==
    /\ Done
    /\ HasResources
    /\ Len(Names) = 2
    /\ idx = 1
    /\ visited = <<Names[1]>>
    /\ IsRaise(result)
    /\ IsRaise(validate_resource(Names[2], document))
    /\ validate_resource(Names[2], document).msg.fmt # result.msg.fmt

\* the resource the loop is at passed the checks of validate_resource
WellTyped ==
    /\ AtResource
    /\ Current.t = "dict"
    /\ "Type" \in KeySet(Current)
    /\ Lookup(Current, "Type").t = "str"
    /\ Lookup(Current, "Type").s \in TypeNames

\* validate_properties has made its checks on the bag of that resource
BagChecked ==
    /\ WellTyped
    /\ pc \in {"validate_property", "done"}
    /\ PropertiesOf(Current).t = "dict"

AbsentRequired(bag, schema) ==
    {k \in KeySet(schema) : Lookup(schema, k).Required /\ k \notin KeySet(bag)}

UnknownKeys(bag, schema) == KeySet(bag) \ KeySet(schema)

\* the list names each element of the set once, and nothing else
ListsExactly(keys, S) ==
    /\ {keys[i] : i \in 1..Len(keys)} = S
    /\ Len(keys) = Cardinality(S)

Position(schema, k) == CHOOSE i \in 1..Len(schema.kv) : schema.kv[i][1] = k

InSchemaOrder(keys, schema) ==
    \A i, j \in 1..Len(keys) :
        i < j => Position(schema, keys[i]) < Position(schema, keys[j])

Increasing(keys) == \A i \in 1..(Len(keys) - 1) : StrLess(keys[i], keys[i + 1])

MissingError(o, resource_name, bag, schema) ==
    /\ IsValidationError(o)
    /\ o.msg.fmt = "Resource {} has missing required properties: {}"
    /\ o.msg.resource_name = resource_name
    /\ ListsExactly(o.msg.keys, AbsentRequired(bag, schema))
    /\ InSchemaOrder(o.msg.keys, schema)

UnexpectedError(o, resource_name, bag, schema) ==
    /\ IsValidationError(o)
    /\ o.msg.fmt = "Resource {} has unexpected properties: {}"
    /\ o.msg.resource_name = resource_name
    /\ ListsExactly(o.msg.keys, UnknownKeys(bag, schema))
    /\ Increasing(o.msg.keys)

\* the last call of validate_property took the general path, not that of
\* Fn::GetAtt
General ==
    /\ last.called
    /\ ~(isinstance(last.value, "dict") /\ "Fn::GetAtt" \in KeySet(last.value))

\* the last call of validate_property handed a mapping to validate_properties
\* as the bag of a structured type
Nested ==
    /\ General
    /\ "PrimitiveType" \notin DOMAIN last.spec
    /\ "Type" \in DOMAIN last.spec
    /\ last.spec.Type \notin {"List", "Map"}
    /\ last.value.t = "dict"
    /\ ~IsRaise(get_value_type(last.value, document))
    /\ get_value_type(last.value, document).val # MAGIC_TYPE

NestedSchema ==
    SPEC.PropertyTypes[Lookup(Resource(document, last.resource_name), "Type").s
                       \o "." \o last.spec.Type].Properties

\* C4: whenever a required key of the schema is absent from the property
\* bag, validate_properties raises the "missing required properties" error,
\* which lists exactly the absent required keys in the schema's key order;
\* the check comes first: it wins over unknown keys and ill-typed values,
\* and no property of the bag is examined.
C4_MissingRequiredFirst ==
    /\ (BagChecked /\ AbsentRequired(PropertiesOf(Current), SchemaOf(Current)) # {}) =>
        /\ Done
        /\ MissingError(result, ResourceName, PropertiesOf(Current), SchemaOf(Current))
        /\ NotExamined(ResourceName)
    /\ (Nested /\ AbsentRequired(last.value, NestedSchema) # {}) =>
        MissingError(last.out, last.resource_name, last.value, NestedSchema)

\* two required keys are absent from a bag that also holds an unknown key
\* and an ill-typed value
C4_Witness ==
    /\ Done
    /\ BagChecked
    /\ Cardinality(AbsentRequired(PropertiesOf(Current), SchemaOf(Current))) = 2
    /\ UnknownKeys(PropertiesOf(Current), SchemaOf(Current)) # {}
    /\ "AlarmName" \in KeySet(PropertiesOf(Current))
    /\ IsValidationError(result)
    /\ result.msg.fmt = "Resource {} has missing required properties: {}"

\* C5: when no required key is missing and the bag holds a key that the
\* schema does not have, validate_properties raises the "unexpected
\* properties" error, which lists exactly those keys in lexicographic order,
\* whatever their order in the bag, before any value is type-checked.
C5_UnexpectedSorted ==
    /\ (BagChecked /\ AbsentRequired(PropertiesOf(Current), SchemaOf(Current)) = {}
            /\ UnknownKeys(PropertiesOf(Current), SchemaOf(Current)) # {}) =>
        /\ Done
        /\ UnexpectedError(result, ResourceName, PropertiesOf(Current), SchemaOf(Current))
        /\ NotExamined(ResourceName)
    /\ (Nested /\ AbsentRequired(last.value, NestedSchema) = {}
            /\ UnknownKeys(last.value, NestedSchema) # {}) =>
        UnexpectedError(last.out, last.resource_name, last.value, NestedSchema)

\* three unknown keys that the bag holds out of order, after an ill-typed value
C5_Witness ==
    /\ Done
    /\ BagChecked
    /\ IsValidationError(result)
    /\ result.msg.fmt = "Resource {} has unexpected properties: {}"
    /\ result.msg.keys = <<"Cake", "Zebra", "apple">>
    /\ "EbsOptimized" \in KeySet(PropertiesOf(Current))
    /\ Keys(PropertiesOf(Current))[Len(Keys(PropertiesOf(Current)))] = "Cake"

InvalidData(o, call, expected) ==
    o = ValidationError(
            [fmt |-> "Resource {} has invalid data in property {}: {} ({} expected)",
             resource_name |-> call.resource_name, property_name |-> call.property_name,
             value |-> call.value, expected |-> expected])

\* C6: in the general case, for a schema entry with PrimitiveType P and a
\* value of resolved type T that is not the indeterminate marker,
\* validate_property succeeds if and only if P equals T, or T is a tuple and
\* P is one of its members; otherwise it raises the type-mismatch error that
\* names the resource, the property, the value and P.
C6_PrimitiveMatch ==
    (General /\ "PrimitiveType" \in DOMAIN last.spec) =>
        LET T == get_value_type(last.value, document)
            P == last.spec.PrimitiveType
        IN  (~IsRaise(T) /\ T.val # MAGIC_TYPE) =>
                IF \/ T.val = Str(P)
                   \/ /\ T.val.t = "tuple"
                      /\ \E i \in 1..Len(T.val.items) : T.val.items[i] = Str(P)
                THEN last.out = Return(None)
                ELSE InvalidData(last.out, last, P)

\* the number 10 for a property of PrimitiveType String
C6_Witness ==
    /\ General
    /\ last.value = PyInt(10)
    /\ "PrimitiveType" \in DOMAIN last.spec
    /\ last.spec.PrimitiveType = "String"
    /\ InvalidData(last.out, last, "String")

NumericTags == {"Double", "Float", "Integer"}

\* C7: an integer or floating-point literal is accepted by PrimitiveType
\* Double, Float and Integer and rejected by Boolean; a boolean literal
\* resolves to Boolean, is accepted by PrimitiveType Boolean and rejected by
\* the three numeric tags.
C7_NumbersAndBooleans ==
    (last.called /\ "PrimitiveType" \in DOMAIN last.spec) =>
        LET P == last.spec.PrimitiveType
            v == last.value
        IN  /\ (v.t \in {"int", "float"} /\ P \in NumericTags) => last.out = Return(None)
            /\ (v.t \in {"int", "float"} /\ P = "Boolean") => InvalidData(last.out, last, P)
            /\ v.t = "bool" => get_value_type(v, document) = Return(BOOLEAN_TYPE)
            /\ (v.t = "bool" /\ P = "Boolean") => last.out = Return(None)
            /\ (v.t = "bool" /\ P \in NumericTags) => InvalidData(last.out, last, P)

\* the literal True for a property of PrimitiveType Integer
C7_Witness ==
    /\ last.called
    /\ last.value = True
    /\ "PrimitiveType" \in DOMAIN last.spec
    /\ last.spec.PrimitiveType = "Integer"
    /\ InvalidData(last.out, last, "Integer")

\* the last call of validate_property was on {"Fn::GetAtt": [resource, attribute]},
\* two strings
IsGetAtt ==
    /\ last.called
    /\ isinstance(last.value, "dict")
    /\ "Fn::GetAtt" \in KeySet(last.value)
    /\ Lookup(last.value, "Fn::GetAtt").t = "list"
    /\ Len(Lookup(last.value, "Fn::GetAtt").items) = 2
    /\ \A i \in 1..2 : Lookup(last.value, "Fn::GetAtt").items[i].t = "str"

TargetName == Lookup(last.value, "Fn::GetAtt").items[1].s
Attribute  == Lookup(last.value, "Fn::GetAtt").items[2].s

\* the target is a resource of the document with a Type
HasTarget ==
    /\ IsGetAtt
    /\ TargetName \in KeySet(Lookup(document, "Resources"))
    /\ Resource(document, TargetName).t = "dict"
    /\ "Type" \in KeySet(Resource(document, TargetName))
    /\ Lookup(Resource(document, TargetName), "Type").t = "str"

TargetType == Lookup(Resource(document, TargetName), "Type").s

\* the target's type declares the attribute
Declared ==
    /\ HasTarget
    /\ TargetType \in TypeNames
    /\ "Attributes" \in DOMAIN SPEC.ResourceTypes[TargetType]
    /\ Attribute \in DOMAIN SPEC.ResourceTypes[TargetType].Attributes

Descriptor == SPEC.ResourceTypes[TargetType].Attributes[Attribute]

Fields == {"Type", "PrimitiveType", "ItemType", "PrimitiveItemType"}

Field(d, f) == IF f \in DOMAIN d THEN d[f] ELSE ""

WrongDataType(o, call) ==
    o = ValidationError(
            [fmt |-> "Resource {} has invalid data in property {}. (GetAtt returns wrong data type)",
             resource_name |-> call.resource_name, property_name |-> call.property_name])

\* C8: on a Fn::GetAtt value whose target attribute has a descriptor,
\* validate_property does not resolve the value's type: it succeeds exactly
\* when the descriptor's four fields (an absent field is empty) equal those
\* of the property's schema entry, and raises "GetAtt returns wrong data
\* type" with the resource and the property when any of them differs.
C8_GetAttFourFields ==
    Declared =>
        IF \A f \in Fields : Field(Descriptor, f) = Field(last.spec, f)
        THEN last.out = Return(None)
        ELSE WrongDataType(last.out, last)

\* the descriptor and the schema entry differ in the item fields only
C8_Witness ==
    /\ Declared
    /\ Field(Descriptor, "Type") = Field(last.spec, "Type")
    /\ Field(Descriptor, "PrimitiveType") = Field(last.spec, "PrimitiveType")
    /\ Field(Descriptor, "ItemType") # Field(last.spec, "ItemType")
    /\ WrongDataType(last.out, last)

\* C9: a lookup miss is not fatal: when the Fn::GetAtt names an attribute
\* that the target's type does not declare, or a target whose Type is not in
\* ResourceTypes, the descriptor is all empty, so that validate_property
\* raises "GetAtt returns wrong data type" whenever the schema entry has a
\* non-empty field, and never an error of another kind.
C9_LookupMissNotFatal ==
    (HasTarget /\ ~Declared) =>
        /\ last.out = Return(None) \/ WrongDataType(last.out, last)
        /\ (\E f \in Fields : Field(last.spec, f) # "") => WrongDataType(last.out, last)

IsIf(v) ==
    /\ isinstance(v, "dict")
    /\ Keys(v) = <<"Fn::If">>
    /\ Lookup(v, "Fn::If").t = "list"
    /\ Len(Lookup(v, "Fn::If").items) = 3

\* C10: the resolver's result for {"Fn::If": [c, t, f]} in a document is its
\* result for t in the same document, whatever the shape of t (a literal, a
\* list, a mapping, a nested intrinsic function such as Fn::FindInMap) and
\* whatever c and f.
C10_IfResolvesToSecond ==
    (last.called /\ IsIf(last.value)) =>
        get_value_type(last.value, document)
            = get_value_type(Lookup(last.value, "Fn::If").items[2], document)

====
